---- MODULE Spec2Model ----
(***************************************************************************)
(* Model of src/src/sql.rs: the global pool slot POOL (an RwLock around an *)
(* Option<Pool>), the exported operations that connect, disconnect and     *)
(* query through it, and the jobs that run do_query on worker threads.     *)
(***************************************************************************)
EXTENDS Integers, FiniteSets, Sequences, TLC

\* ------------------------------------------------------------------ bounds
MaxJobs == 2        \* async jobs that may be started
NumCallers == 2     \* threads calling the exported functions
MaxConnects == 2    \* pools that connect may build
MaxPoolSize == 2    \* largest max_threads tried
MaxCalls == 4       \* calls of exported functions in one run
MaxText == 5        \* characters in a numeric text argument of connect
MaxLen == 3         \* elements of a sequence in a parameter payload
MaxRows == 3        \* rows of a result set

Jobs == 1..MaxJobs
Callers == (MaxJobs + 1)..(MaxJobs + NumCallers)
Threads == Jobs \cup Callers
PoolIds == 1..MaxConnects
NoPool == 0

VARIABLES
    slot,        \* POOL's content: NoPool (None) or the id of the pool (Some)
    poisoned,    \* POOL's poison flag
    writerPref,  \* the platform's RwLock policy: a waiting writer blocks new readers
    poolsBuilt,  \* number of pools Pool::new_manual has built
    poolMax,     \* poolMax[p]: the max size pool p was built with
    pend,        \* pend[c]: the pool sql_connect built and is about to install
    conn,        \* conn[t]: the pool whose connection thread t has checked out
    pc,          \* pc[t]: where thread t stands
    res,         \* res[j]: the result job j stored ("none" until it is done)
    out,         \* the result an exported call returns in this step (else NoResult)
    started,     \* number of jobs jobs::start has spawned
    calls,       \* number of exported calls made so far
    lastSlotOp,  \* history: the last operation that wrote the slot
    discAt,      \* history: discAt[j] = where job j stood when a disconnect was issued
    fn,          \* the helper function, or statement of do_query, applied last
    arg,         \* the argument it is applied to
    ret          \* what it returned, or the state of the do_query under way

\* The helper functions (parsing, binding, the value codec) neither read nor
\* write the pool, the lock or the jobs: they have a state of their own.
pure == <<fn, arg, ret>>

vars == <<slot, poisoned, writerPref, poolsBuilt, poolMax, pend, conn, pc, res, out,
          started, calls, lastSlotOp, discAt, fn, arg, ret>>

\* ------------------------------------------------------------ the RwLock
\* do_query keeps the read guard from POOL.read() to the end of get_conn.
Readers == {t \in Threads : pc[t] = "getconn"}
WritersWaiting == {c \in Callers : pc[c] \in {"c_wlock", "d_wlock"}}

\* POOL.read() can be granted: no writer holds the lock (writers hold it only
\* within one step) and, on a writer-preferring platform, none waits for it.
CanRead == ~(writerPref /\ WritersWaiting # {})
\* POOL.write() can be granted: no read guard is alive.
CanWrite == Readers = {}

\* ------------------------------------------------------------- the pool
Held(p) == Cardinality({t \in Threads : conn[t] = p})
\* Faulty variant: the pool keeps one connection back.
PoolHasRoom_OffByOne(p) == Held(p) + 1 < poolMax[p]
\* Pool::get_conn returns (with a connection or an I/O error) only while the pool
\* has a connection to give; otherwise it waits on the pool's condition variable.
PoolHasRoom(p) == Held(p) < poolMax[p]
\* Pool::new_manual(min, max, opts): constraints, then min eager connections.
PoolNewOk(min, max, reach) == ~(min > max \/ max = 0) /\ (min > 0 => reach)

\* ------------------------------------------------------------ results
Result(op, id, st) == [op |-> op, id |-> id, st |-> st]
NoResult == Result("none", 0, "none")

\* Faulty variant: unwrap() on the lock result, a poisoned lock panics.
LockedOr_Unwrap(p, st) == IF p THEN "panic" ELSE st
\* Lock acquisition through `?` / `match`: a poisoned lock is an Err, mapped by
\* err_to_json to {status: err}.
LockedOr(p, st) == IF p THEN "err" ELSE st

\* Faulty variant: an empty slot reported as a failure.
QuerySlotStatus_EmptyIsErr(s) == IF s = NoPool THEN "err" ELSE "checkout"
\* Faulty variant: as_ref() instead of take(), the pool stays in the slot.
TakeSlot_Keeps(s) == s
\* Faulty variant: get_or_insert, a pool already in the slot is kept.
InstallSlot_KeepsOld(old, new) == IF old = NoPool THEN new ELSE old

\* The Option<Pool> match of do_query and sql_connected.
QuerySlotStatus(s) == IF s = NoPool THEN "offline" ELSE "checkout"
ConnectedStatus(s) == IF s = NoPool THEN "offline" ELSE "online"
\* o.take() of sql_disconnect_pool: the status and the slot it leaves.
TakeStatus(s) == IF s = NoPool THEN "offline" ELSE "success"
TakeSlot(s) == NoPool
\* *poolguard = Some(pool)
InstallSlot(old, new) == new

\* A do_query that ends: a job stores its result and is done, a caller of
\* sql_query_blocking gets it back.
Finish(t, st) ==
    IF t \in Jobs
    THEN /\ pc' = [pc EXCEPT ![t] = "done"]
         /\ res' = [res EXCEPT ![t] = st]
         /\ out' = NoResult
    ELSE /\ pc' = [pc EXCEPT ![t] = "idle"]
         /\ out' = Result("query", 0, st)
         /\ res' = res

Init ==
    /\ slot = NoPool
    /\ poisoned = FALSE
    /\ writerPref \in BOOLEAN
    /\ poolsBuilt = 0
    /\ poolMax = [p \in PoolIds |-> 0]
    /\ pend = [c \in Callers |-> NoPool]
    /\ conn = [t \in Threads |-> NoPool]
    /\ pc = [t \in Threads |-> IF t \in Jobs THEN "unborn" ELSE "idle"]
    /\ res = [j \in Jobs |-> "none"]
    /\ out = NoResult
    /\ started = 0
    /\ calls = 0
    /\ lastSlotOp = "none"
    /\ discAt = [j \in Jobs |-> "none"]
    /\ fn = "none"
    /\ arg = <<>>
    /\ ret = <<>>

\* ------------------------------------------------------------- do_query
\* let p = POOL.read()?; match &*p { Some(s) => s, None => return offline }
RLock(t) ==
    /\ pc[t] = "rlock"
    /\ CanRead
    /\ LET st == LockedOr(poisoned, QuerySlotStatus(slot))
       IN  IF st = "checkout"
           THEN /\ pc' = [pc EXCEPT ![t] = "getconn"]
                /\ res' = res
                /\ out' = NoResult
           ELSE Finish(t, st)
    /\ UNCHANGED <<slot, poisoned, writerPref, poolsBuilt, poolMax, pend,
                   conn, started, calls, lastSlotOp, discAt>>
    /\ UNCHANGED pure

\* pool.get_conn()? succeeds; the read guard is dropped at the end of the block.
GetConnOk(t) ==
    /\ pc[t] = "getconn"
    /\ PoolHasRoom(slot)
    /\ conn' = [conn EXCEPT ![t] = slot]
    /\ pc' = [pc EXCEPT ![t] = "exec"]
    /\ out' = NoResult
    /\ UNCHANGED <<slot, poisoned, writerPref, poolsBuilt, poolMax, pend,
                   res, started, calls, lastSlotOp, discAt>>
    /\ UNCHANGED pure

\* pool.get_conn()? fails (the new connection, or the health check, fails).
GetConnErr(t) ==
    /\ pc[t] = "getconn"
    /\ PoolHasRoom(slot)
    /\ Finish(t, "err")
    /\ UNCHANGED <<slot, poisoned, writerPref, poolsBuilt, poolMax, pend,
                   conn, started, calls, lastSlotOp, discAt>>
    /\ UNCHANGED pure

\* Faulty variant: the query looks at the slot again and gives up when the pool is gone.
Exec_Rechecks(t) ==
    /\ pc[t] = "exec"
    /\ conn' = [conn EXCEPT ![t] = NoPool]
    /\ \E st \in {"ok", "err"} : Finish(t, IF slot = NoPool THEN "offline" ELSE st)
    /\ UNCHANGED <<slot, poisoned, writerPref, poolsBuilt, poolMax, pend,
                   started, calls, lastSlotOp, discAt>>
    /\ UNCHANGED pure

\* Faulty variant: the connection is never given back (mem::forget(conn)).
Exec_Leaks(t) ==
    /\ pc[t] = "exec"
    /\ conn' = conn
    /\ \E st \in {"ok", "err"} : Finish(t, st)
    /\ UNCHANGED <<slot, poisoned, writerPref, poolsBuilt, poolMax, pend,
                   started, calls, lastSlotOp, discAt>>
    /\ UNCHANGED pure

\* conn.exec_iter, the row loop and drop(conn): the query ends ok or with an
\* error (`?`), and the connection goes back to its pool either way.
Exec(t) ==
    /\ pc[t] = "exec"
    /\ conn' = [conn EXCEPT ![t] = NoPool]
    /\ \E st \in {"ok", "err"} : Finish(t, st)
    /\ UNCHANGED <<slot, poisoned, writerPref, poolsBuilt, poolMax, pend,
                   started, calls, lastSlotOp, discAt>>
    /\ UNCHANGED pure

\* ---------------------------------------------------- sql_query_blocking
\* The caller runs do_query itself.
QueryBlockingCall(c) ==
    /\ pc[c] = "idle"
    /\ calls < MaxCalls
    /\ calls' = calls + 1
    /\ pc' = [pc EXCEPT ![c] = "rlock"]
    /\ out' = NoResult
    /\ UNCHANGED <<slot, poisoned, writerPref, poolsBuilt, poolMax, pend,
                   conn, res, started, lastSlotOp, discAt>>
    /\ UNCHANGED pure

\* ------------------------------------------------------- sql_query_async
\* jobs::start: a fresh id, a worker thread that runs do_query, the id returned
\* at once.
JobsStartId(n) == n + 1

QueryAsync(c) ==
    /\ pc[c] = "idle"
    /\ calls < MaxCalls
    /\ calls' = calls + 1
    /\ started < MaxJobs
    /\ LET j == JobsStartId(started)
       IN  /\ started' = j
           /\ pc' = [pc EXCEPT ![j] = "rlock"]
           /\ out' = Result("async", j, "started")
    /\ UNCHANGED <<slot, poisoned, writerPref, poolsBuilt, poolMax, pend,
                   conn, res, lastSlotOp, discAt>>
    /\ UNCHANGED pure

\* ------------------------------------------------------- sql_check_query
\* Faulty variant: the stored result is handed out once, the job is forgotten after.
JobsCheck_TakeOnce(id) ==
    IF id > started THEN "no-such-job"
    ELSE IF pc[id] # "done" THEN "still-running"
    ELSE IF out = Result("check", id, res[id]) THEN "no-such-job"
    ELSE res[id]

\* jobs::check(id): what a poll of job id returns.
JobsCheck(id) ==
    IF id > started THEN "no-such-job"
    ELSE IF pc[id] # "done" THEN "still-running"
    ELSE res[id]

CheckJob(c, id) ==
    /\ pc[c] = "idle"
    /\ calls < MaxCalls
    /\ calls' = calls + 1
    /\ out' = Result("check", id, JobsCheck(id))
    /\ UNCHANGED <<slot, poisoned, writerPref, poolsBuilt, poolMax, pend,
                   conn, pc, res, started, lastSlotOp, discAt>>
    /\ UNCHANGED pure

\* ------------------------------------------- sql_connect_pool / sql_connect
\* Faulty variant: the old pool is taken out of the slot before the new one
\* is built (POOL.write()?.take() ahead of Pool::new_manual).
ConnectFail_ClearsSlot(c, min, max, reach) ==
    /\ pc[c] = "idle"
    /\ calls < MaxCalls
    /\ calls' = calls + 1
    /\ ~PoolNewOk(min, max, reach)
    /\ CanWrite
    /\ slot' = NoPool
    /\ out' = Result("connect", 0, "err")
    /\ UNCHANGED <<poisoned, writerPref, poolsBuilt, poolMax, pend,
                   conn, pc, res, started, lastSlotOp, discAt>>
    /\ UNCHANGED pure

\* Pool::new_manual(min_threads, max_threads, builder)? fails: err, and the
\* lock is never asked for.
ConnectFail(c, min, max, reach) ==
    /\ pc[c] = "idle"
    /\ calls < MaxCalls
    /\ calls' = calls + 1
    /\ ~PoolNewOk(min, max, reach)
    /\ out' = Result("connect", 0, "err")
    /\ UNCHANGED <<slot, poisoned, writerPref, poolsBuilt, poolMax, pend,
                   conn, pc, res, started, lastSlotOp, discAt>>
    /\ UNCHANGED pure

\* Pool::new_manual succeeds; the caller goes on to POOL.write().
ConnectBuild(c, min, max, reach) ==
    /\ pc[c] = "idle"
    /\ calls < MaxCalls
    /\ calls' = calls + 1
    /\ poolsBuilt < MaxConnects
    /\ PoolNewOk(min, max, reach)
    /\ poolsBuilt' = poolsBuilt + 1
    /\ poolMax' = [poolMax EXCEPT ![poolsBuilt + 1] = max]
    /\ pend' = [pend EXCEPT ![c] = poolsBuilt + 1]
    /\ pc' = [pc EXCEPT ![c] = "c_wlock"]
    /\ out' = NoResult
    /\ UNCHANGED <<slot, poisoned, writerPref, conn, res, started,
                   lastSlotOp, discAt>>
    /\ UNCHANGED pure

\* let mut poolguard = POOL.write()?; *poolguard = Some(pool); Ok(ok)
ConnectWrite(c) ==
    /\ pc[c] = "c_wlock"
    /\ CanWrite
    /\ slot' = IF poisoned THEN slot ELSE InstallSlot(slot, pend[c])
    /\ lastSlotOp' = IF poisoned THEN lastSlotOp ELSE "connect"
    /\ out' = Result("connect", 0, LockedOr(poisoned, "ok"))
    /\ pend' = [pend EXCEPT ![c] = NoPool]
    /\ pc' = [pc EXCEPT ![c] = "idle"]
    /\ UNCHANGED <<poisoned, writerPref, poolsBuilt, poolMax, conn, res,
                   started, calls, discAt>>
    /\ UNCHANGED pure

\* --------------------------------------------------- sql_disconnect_pool
\* Where a running job stands when a disconnect is issued on a connected
\* slot: before its POOL.read() ("rlock"), or past it with the pool in hand
\* ("held").
DiscMark(j) ==
    IF pc[j] \in {"getconn", "exec"} THEN "held"
    ELSE IF pc[j] = "rlock" /\ discAt[j] = "none" /\ slot # NoPool THEN "rlock"
    ELSE discAt[j]

DisconnectCall(c) ==
    /\ pc[c] = "idle"
    /\ calls < MaxCalls
    /\ calls' = calls + 1
    /\ pc' = [pc EXCEPT ![c] = "d_wlock"]
    /\ discAt' = [j \in Jobs |-> DiscMark(j)]
    /\ out' = NoResult
    /\ UNCHANGED <<slot, poisoned, writerPref, poolsBuilt, poolMax, pend,
                   conn, res, started, lastSlotOp>>
    /\ UNCHANGED pure

\* Faulty variant: disconnect closes the connections that are checked out.
DisconnectWrite_Aborts(c) ==
    /\ pc[c] = "d_wlock"
    /\ CanWrite
    /\ slot' = IF poisoned THEN slot ELSE TakeSlot(slot)
    /\ lastSlotOp' = IF poisoned THEN lastSlotOp ELSE "disconnect"
    /\ out' = Result("disconnect", 0, LockedOr(poisoned, TakeStatus(slot)))
    /\ pc' = [pc EXCEPT ![c] = "idle"]
    /\ conn' = [t \in Threads |-> NoPool]
    /\ UNCHANGED <<poisoned, writerPref, poolsBuilt, poolMax, pend,
                   res, started, calls, discAt>>
    /\ UNCHANGED pure

\* match POOL.write() { Ok(mut o) => match o.take() {..}, Err(e) => err }
DisconnectWrite(c) ==
    /\ pc[c] = "d_wlock"
    /\ CanWrite
    /\ slot' = IF poisoned THEN slot ELSE TakeSlot(slot)
    /\ lastSlotOp' = IF poisoned THEN lastSlotOp ELSE "disconnect"
    /\ out' = Result("disconnect", 0, LockedOr(poisoned, TakeStatus(slot)))
    /\ pc' = [pc EXCEPT ![c] = "idle"]
    /\ UNCHANGED <<poisoned, writerPref, poolsBuilt, poolMax, pend, conn,
                   res, started, calls, discAt>>
    /\ UNCHANGED pure

\* ---------------------------------------------------------- sql_connected
StatusCall(c) ==
    /\ pc[c] = "idle"
    /\ calls < MaxCalls
    /\ calls' = calls + 1
    /\ pc' = [pc EXCEPT ![c] = "s_rlock"]
    /\ out' = NoResult
    /\ UNCHANGED <<slot, poisoned, writerPref, poolsBuilt, poolMax, pend,
                   conn, res, started, lastSlotOp, discAt>>
    /\ UNCHANGED pure

\* match POOL.read() { Ok(o) => match *o {..}, Err(e) => err }
StatusRead(c) ==
    /\ pc[c] = "s_rlock"
    /\ CanRead
    /\ out' = Result("status", 0, LockedOr(poisoned, ConnectedStatus(slot)))
    /\ pc' = [pc EXCEPT ![c] = "idle"]
    /\ UNCHANGED <<slot, poisoned, writerPref, poolsBuilt, poolMax, pend,
                   conn, res, started, calls, lastSlotOp, discAt>>
    /\ UNCHANGED pure

\* ------------------------------------------------------------- the lock
\* A thread panicked while it held the write guard: std's RwLock is poisoned
\* from then on, and every later read() and write() is an Err.
PoisonLock ==
    /\ ~poisoned
    /\ Readers = {}
    /\ poisoned' = TRUE
    /\ out' = NoResult
    /\ UNCHANGED <<slot, writerPref, poolsBuilt, poolMax, pend, conn, pc,
                   res, started, calls, lastSlotOp, discAt>>
    /\ UNCHANGED pure

Worker(t) == RLock(t) \/ GetConnOk(t) \/ GetConnErr(t) \/ Exec(t)

Connect(c) ==
    \E min \in 0..1, max \in 0..MaxPoolSize, reach \in BOOLEAN :
        ConnectFail(c, min, max, reach) \/ ConnectBuild(c, min, max, reach)

Host(c) ==
    \/ QueryBlockingCall(c)
    \/ QueryAsync(c)
    \/ \E id \in Jobs : CheckJob(c, id)
    \/ Connect(c)
    \/ ConnectWrite(c)
    \/ DisconnectCall(c)
    \/ DisconnectWrite(c)
    \/ StatusCall(c)
    \/ StatusRead(c)

Next ==
    \/ \E t \in Threads : Worker(t)
    \/ \E c \in Callers : Host(c)

Spec == Init /\ [][Next]_vars

\* A step of a call or job already under way: a lock or a connection is
\* granted, a query ends.
Progress ==
    \/ \E t \in Threads : Worker(t)
    \/ \E c \in Callers : ConnectWrite(c) \/ DisconnectWrite(c) \/ StatusRead(c)

\* Fair scheduling: the threads never all stand still while one of them can
\* take its next step.
Fairness == WF_vars(Progress)

FairSpec == Spec /\ Fairness

\* The same program where a thread may have panicked under the write guard.
NextPoison == Next \/ PoisonLock

SpecPoison == Init /\ [][NextPoison]_vars

\* ======================================================= helper functions
\* The variables of the pool, the lock and the jobs, which no helper touches.
shared == <<slot, poisoned, writerPref, poolsBuilt, poolMax, pend, conn, pc, res, out,
            started, calls, lastSlotOp, discAt>>

SharedInit ==
    /\ slot = NoPool
    /\ poisoned = FALSE
    /\ writerPref = FALSE
    /\ poolsBuilt = 0
    /\ poolMax = [p \in PoolIds |-> 0]
    /\ pend = [c \in Callers |-> NoPool]
    /\ conn = [t \in Threads |-> NoPool]
    /\ pc = [t \in Threads |-> IF t \in Jobs THEN "unborn" ELSE "idle"]
    /\ res = [j \in Jobs |-> "none"]
    /\ out = NoResult
    /\ started = 0
    /\ calls = 0
    /\ lastSlotOp = "none"
    /\ discAt = [j \in Jobs |-> "none"]

\* ------------------------------------ sql_connect_pool: the numeric arguments
\* The characters numeric texts are made of here: digits (enough of them to
\* write 65535 and 65536), the two signs and a letter.
Chars == {"0", "3", "5", "6", "+", "-", "x"}
Texts == UNION {[1..n -> Chars] : n \in 0..MaxText}

\* char::to_digit(10); -1 stands for None.
Digit(c) ==
    CASE c = "0" -> 0 [] c = "1" -> 1 [] c = "2" -> 2 [] c = "3" -> 3
      [] c = "4" -> 4 [] c = "5" -> 5 [] c = "6" -> 6 [] c = "7" -> 7
      [] c = "8" -> 8 [] c = "9" -> 9 [] OTHER -> -1

\* The Err of str::parse.
ParseErr == -1

\* A value of an unsigned type of the given width. Texts of at most MaxText
\* characters denote numbers below 2^31, so of u16, u64 and usize only u16
\* can overflow.
Fits(v, bits) == bits > 30 \/ v < 2^bits

\* The digit loop of str::parse for an unsigned type: checked_mul(10), then
\* checked_add(digit); a character that is no digit, or an overflow, is an Err.
RECURSIVE ParseDigits(_, _, _)
ParseDigits(digits, result, bits) ==
    IF digits = <<>> THEN result
    ELSE LET x == Digit(Head(digits))
         IN  IF x < 0 THEN ParseErr
             ELSE IF ~Fits(result * 10, bits) THEN ParseErr
             ELSE IF ~Fits(result * 10 + x, bits) THEN ParseErr
             ELSE ParseDigits(Tail(digits), result * 10 + x, bits)

\* Faulty variant: the text is parsed at a wider type and cast (`as u16`).
ParseUnsigned_Cast(src, bits) ==
    IF src = <<>> THEN ParseErr
    ELSE IF Len(src) = 1 /\ Head(src) \in {"+", "-"} THEN ParseErr
    ELSE LET wide == ParseDigits(IF Head(src) = "+" THEN Tail(src) ELSE src, 0, 31)
         IN  IF wide = ParseErr \/ bits > 30 THEN wide ELSE wide % (2 ^ bits)

\* text.parse::<u16 | u64 | usize>(): an empty text and a lone sign are errors,
\* a leading + is skipped, a leading - is no digit of an unsigned type.
ParseUnsigned(src, bits) ==
    IF src = <<>> THEN ParseErr
    ELSE IF Len(src) = 1 /\ Head(src) \in {"+", "-"} THEN ParseErr
    ELSE ParseDigits(IF Head(src) = "+" THEN Tail(src) ELSE src, 0, bits)

\* Result::unwrap_or
UnwrapOr(r, default) == IF r = ParseErr THEN default ELSE r

PortBits == 16
WideBits == 64
DefaultPort == 3306
DefaultTimeout == 10
DefaultMinThreads == 1
DefaultMaxThreads == 50

\* sql_connect_pool up to the call of sql_connect and sql_connect up to
\* Pool::new_manual: the values the pool is built with, and whether it is built.
SqlConnectPool(a) ==
    LET port == UnwrapOr(ParseUnsigned(a.port, PortBits), DefaultPort)
        timeout == UnwrapOr(ParseUnsigned(a.timeout, WideBits), DefaultTimeout)
        min_threads == UnwrapOr(ParseUnsigned(a.min_threads, WideBits), DefaultMinThreads)
        max_threads == UnwrapOr(ParseUnsigned(a.max_threads, WideBits), DefaultMaxThreads)
    IN  [port |-> port, timeout |-> timeout,
         min_threads |-> min_threads, max_threads |-> max_threads,
         pool |-> PoolNewOk(min_threads, max_threads, a.reach)]

\* The calls tried: argument f is the text t, the others are sound.
ConnectArgs(f, t, r) ==
    LET sound == [port |-> <<"3", "3", "0", "6">>, timeout |-> <<"3", "0">>,
                  min_threads |-> <<"0">>, max_threads |-> <<"3">>,
                  reach |-> TRUE]
    IN  [sound EXCEPT ![f] = t, !.reach = r]

ParseInit ==
    /\ SharedInit
    /\ fn = "none"
    /\ \E f \in {"port", "timeout", "min_threads", "max_threads"},
          t \in Texts, r \in BOOLEAN : arg = ConnectArgs(f, t, r)
    /\ ret = <<>>

ParseConnectArgs ==
    /\ fn = "none"
    /\ fn' = "sql_connect_pool"
    /\ ret' = SqlConnectPool(arg)
    /\ UNCHANGED arg
    /\ UNCHANGED shared

ParseNext == ParseConnectArgs

ParseSpec == ParseInit /\ [][ParseNext]_vars

\* ------------------------------------------------------ serde_json::Value
\* A value is a record of its variant (tag) and the content of that variant.
JNull == [tag |-> "Null"]
JBool(b) == [tag |-> "Bool", b |-> b]
\* serde_json::Number keeps a PosInt (u64), a NegInt (i64, always below 0) or
\* a Float (f64, always finite); a float is counted in halves here (3 is 1.5).
JNumber(n, i) == [tag |-> "Number", n |-> n, i |-> i]
\* Text is the sequence of its code points.
JString(s) == [tag |-> "String", s |-> s]
JArray(a) == [tag |-> "Array", a |-> a]
\* A mapping is a function from its keys.
JObject(o) == [tag |-> "Object", o |-> o]

\* ----------------------------------------------------------- mysql::Value
MNull == [tag |-> "NULL"]
MBytes(b) == [tag |-> "Bytes", bytes |-> b]
MInt(i) == [tag |-> "Int", int |-> i]
MUInt(u) == [tag |-> "UInt", uint |-> u]
\* An f64 in halves, or not finite (NaN, an infinity).
MFloat(finite, halves) == [tag |-> "Float", finite |-> finite, halves |-> halves]

\* ----------------------------------------------------------- json_to_mysql
\* Number::as_u64 / as_i64 / as_f64 are Some. The numbers drawn are below 2^31,
\* so a PosInt always fits an i64.
IsU64(n) == n.n = "PosInt"
IsI64(n) == n.n \in {"PosInt", "NegInt"}
IsF64(n) == n.n \in {"PosInt", "NegInt", "Float"}

U8Range == 256

\* String::into::<Vec<u8>>: the UTF-8 bytes of a text (code points below 2048).
RECURSIVE Utf8Bytes(_)
Utf8Bytes(s) ==
    IF s = <<>> THEN <<>>
    ELSE LET c == Head(s)
         IN  (IF c < 128 THEN <<c>> ELSE <<192 + (c \div 64), 128 + (c % 64)>>)
                 \o Utf8Bytes(Tail(s))

\* Faulty variant: the element is cut to 7 bits (& 0x7f).
ByteOfElement_SevenBits(x) ==
    IF x.tag = "Number"
    THEN (IF IsU64(x) THEN x.i ELSE 0) % 128
    ELSE 0

\* Faulty variant: an element above 255 becomes 255 (min(255)).
ByteOfElement_Saturates(x) ==
    IF x.tag = "Number"
    THEN (IF IsU64(x) THEN (IF x.i > 255 THEN 255 ELSE x.i) ELSE 0)
    ELSE 0

\* The closure of the Array arm: n.as_u64().unwrap_or(0) as u8 for a number,
\* 0 for anything else.
ByteOfElement(x) ==
    IF x.tag = "Number"
    THEN (IF IsU64(x) THEN x.i ELSE 0) % U8Range
    ELSE 0

\* Faulty variant: as_i64 is tried before as_u64.
JsonToMysql_SignedFirst(val) ==
    CASE val.tag = "Bool" -> MUInt(IF val.b THEN 1 ELSE 0)
      [] val.tag = "Number" ->
            IF IsI64(val) THEN MInt(val.i)
            ELSE IF IsU64(val) THEN MUInt(val.i)
            ELSE IF IsF64(val) THEN MFloat(TRUE, val.i)
            ELSE MNull
      [] val.tag = "String" -> MBytes(Utf8Bytes(val.s))
      [] val.tag = "Array" -> MBytes([i \in 1..Len(val.a) |-> ByteOfElement(val.a[i])])
      [] OTHER -> MNull

\* Faulty variant: a sequence with an element that is no number is NULL.
JsonToMysql_StrictArray(val) ==
    CASE val.tag = "Bool" -> MUInt(IF val.b THEN 1 ELSE 0)
      [] val.tag = "Number" ->
            IF IsU64(val) THEN MUInt(val.i)
            ELSE IF IsI64(val) THEN MInt(val.i)
            ELSE IF IsF64(val) THEN MFloat(TRUE, val.i)
            ELSE MNull
      [] val.tag = "String" -> MBytes(Utf8Bytes(val.s))
      [] val.tag = "Array" /\ \A i \in 1..Len(val.a) : val.a[i].tag = "Number" ->
            MBytes([i \in 1..Len(val.a) |-> ByteOfElement(val.a[i])])
      [] OTHER -> MNull

JsonToMysql(val) ==
    CASE val.tag = "Bool" -> MUInt(IF val.b THEN 1 ELSE 0)
      [] val.tag = "Number" ->
            IF IsU64(val) THEN MUInt(val.i)
            ELSE IF IsI64(val) THEN MInt(val.i)
            ELSE IF IsF64(val) THEN MFloat(TRUE, val.i)
            ELSE MNull
      [] val.tag = "String" -> MBytes(Utf8Bytes(val.s))
      [] val.tag = "Array" -> MBytes([i \in 1..Len(val.a) |-> ByteOfElement(val.a[i])])
      [] OTHER -> MNull

\* ------------------------------------------------------- parameter payloads
\* The values drawn as elements of sequences and entries of mappings.
JsonScalars ==
    {JNull, JBool(FALSE), JBool(TRUE),
     JNumber("PosInt", 0), JNumber("PosInt", 1), JNumber("PosInt", 255),
     JNumber("PosInt", 256), JNumber("PosInt", 511),
     JNumber("NegInt", -1), JNumber("NegInt", -257),
     JNumber("Float", 2), JNumber("Float", 3),
     JString(<<>>), JString(<<97, 233>>)}
JsonElements ==
    {JNull, JBool(TRUE), JNumber("PosInt", 0), JNumber("PosInt", 255),
     JNumber("PosInt", 257), JNumber("NegInt", -1), JNumber("Float", 2),
     JString(<<97>>), JArray(<<JNumber("PosInt", 1)>>),
     JObject([k \in {"a"} |-> JNull])}
JsonKeys == {"a", "b"}
JsonArrays == UNION {{JArray(a) : a \in [1..n -> JsonElements]} : n \in 0..MaxLen}
JsonObjects == UNION {{JObject(o) : o \in [ks -> JsonElements]} : ks \in SUBSET JsonKeys}
JsonValues == JsonScalars \cup JsonArrays \cup JsonObjects

\* ------------------------------------------------------------------ Params
ParamsEmpty == [kind |-> "Empty"]
ParamsPositional(p) == [kind |-> "Positional", pos |-> p]
ParamsNamed(p) == [kind |-> "Named", named |-> p]

\* Faulty variant: the parameters are taken from the end of the vector (pop).
ArrayToParams_Reversed(params) ==
    IF params = <<>> THEN ParamsEmpty
    ELSE ParamsPositional([i \in 1..Len(params) |->
                              JsonToMysql(params[Len(params) + 1 - i])])

ArrayToParams(params) ==
    IF params = <<>> THEN ParamsEmpty
    ELSE ParamsPositional([i \in 1..Len(params) |-> JsonToMysql(params[i])])

ObjectToParams(params) ==
    IF DOMAIN params = {} THEN ParamsEmpty
    ELSE ParamsNamed([key \in DOMAIN params |-> JsonToMysql(params[key])])

\* serde_json::from_str(params): Ok(value), or Err for a text that is no JSON.
FromStrOk(val) == [ok |-> TRUE, value |-> val]
FromStrErr == [ok |-> FALSE, value |-> JNull]

ParamsFromJson(parsed) ==
    IF parsed.ok /\ parsed.value.tag = "Object" THEN ObjectToParams(parsed.value.o)
    ELSE IF parsed.ok /\ parsed.value.tag = "Array" THEN ArrayToParams(parsed.value.a)
    ELSE ParamsEmpty

BinderInit ==
    /\ SharedInit
    /\ fn = "none"
    /\ arg \in {FromStrErr} \cup {FromStrOk(val) : val \in JsonValues}
    /\ ret = <<>>

BindParams ==
    /\ fn = "none"
    /\ fn' = "params_from_json"
    /\ ret' = ParamsFromJson(arg)
    /\ UNCHANGED arg
    /\ UNCHANGED shared

BinderNext == BindParams

BinderSpec == BinderInit /\ [][BinderNext]_vars

\* ------------------------------------------- do_query: one cell of a row
\* mysql::Value::Date(year, month, day, hour, minute, second, micros)
MDate(y, mo, d, h, mi, s, us) ==
    [tag |-> "Date", year |-> y, month |-> mo, day |-> d,
     hour |-> h, minute |-> mi, second |-> s, micros |-> us]
MTime == [tag |-> "Time"]

\* mysql::consts::ColumnType
CharTypes == {"MYSQL_TYPE_VARCHAR", "MYSQL_TYPE_STRING", "MYSQL_TYPE_VAR_STRING"}
BlobTypes == {"MYSQL_TYPE_BLOB", "MYSQL_TYPE_LONG_BLOB", "MYSQL_TYPE_MEDIUM_BLOB",
              "MYSQL_TYPE_TINY_BLOB"}
ColumnTypes ==
    CharTypes \cup BlobTypes \cup
    {"MYSQL_TYPE_DECIMAL", "MYSQL_TYPE_TINY", "MYSQL_TYPE_SHORT", "MYSQL_TYPE_LONG",
     "MYSQL_TYPE_FLOAT", "MYSQL_TYPE_DOUBLE", "MYSQL_TYPE_NULL", "MYSQL_TYPE_TIMESTAMP",
     "MYSQL_TYPE_LONGLONG", "MYSQL_TYPE_INT24", "MYSQL_TYPE_DATE", "MYSQL_TYPE_TIME",
     "MYSQL_TYPE_DATETIME", "MYSQL_TYPE_YEAR", "MYSQL_TYPE_NEWDATE", "MYSQL_TYPE_BIT",
     "MYSQL_TYPE_TIMESTAMP2", "MYSQL_TYPE_DATETIME2", "MYSQL_TYPE_TIME2",
     "MYSQL_TYPE_JSON", "MYSQL_TYPE_NEWDECIMAL", "MYSQL_TYPE_ENUM", "MYSQL_TYPE_SET",
     "MYSQL_TYPE_GEOMETRY"}

\* String::from_utf8_lossy(&b).into_owned(): the code points of the bytes, with
\* U+FFFD for each byte that is part of no well-formed sequence. The bytes
\* drawn form sequences of one and two bytes only.
Replacement == 65533
RECURSIVE Utf8Lossy(_)
Utf8Lossy(b) ==
    IF b = <<>> THEN <<>>
    ELSE IF Head(b) < 128 THEN <<Head(b)>> \o Utf8Lossy(Tail(b))
    ELSE IF Head(b) \in 194..223 /\ Len(b) >= 2 /\ b[2] \in 128..191
         THEN <<(Head(b) - 192) * 64 + (b[2] - 128)>> \o Utf8Lossy(SubSeq(b, 3, Len(b)))
    ELSE <<Replacement>> \o Utf8Lossy(Tail(b))

\* The text of a number (`{}`), as code points.
RECURSIVE Display(_)
Display(n) ==
    IF n < 10 THEN <<48 + n>> ELSE Display(n \div 10) \o <<48 + (n % 10)>>
\* `{:02}`: at least two characters, zeros in front.
Pad02(n) == IF n < 10 THEN <<48>> \o Display(n) ELSE Display(n)

\* format!("{}-{:02}-{:02} {:02}:{:02}:{:02}", year, month, day, hour, minute, second)
FormatDate(d) ==
    Display(d.year) \o <<45>> \o Pad02(d.month) \o <<45>> \o Pad02(d.day) \o <<32>>
        \o Pad02(d.hour) \o <<58>> \o Pad02(d.minute) \o <<58>> \o Pad02(d.second)

\* Number::from(i64): a PosInt from 0 on, a NegInt below.
NumberFromI64(i) == IF i < 0 THEN JNumber("NegInt", i) ELSE JNumber("PosInt", i)
\* Number::from_f64(f).unwrap_or(Number::from(0))
NumberFromF64(finite, halves) ==
    IF finite THEN JNumber("Float", halves) ELSE JNumber("PosInt", 0)

\* Faulty variant: the binary flag is not looked at, a large object is
\* always a sequence of numbers.
EncodeCell_IgnoresFlag(value, ctype, binary) ==
    CASE value.tag = "Bytes" ->
            IF ctype \in CharTypes THEN JString(Utf8Lossy(value.bytes))
            ELSE IF ctype \in BlobTypes
                 THEN JArray([i \in 1..Len(value.bytes) |->
                                 JNumber("PosInt", value.bytes[i])])
            ELSE JNull
      [] value.tag = "Float" -> NumberFromF64(value.finite, value.halves)
      [] value.tag = "Int" -> NumberFromI64(value.int)
      [] value.tag = "UInt" -> JNumber("PosInt", value.uint)
      [] value.tag = "Date" -> JString(FormatDate(value))
      [] OTHER -> JNull

\* The match on the value of a cell and on the type and flags of its column.
EncodeCell(value, ctype, binary) ==
    CASE value.tag = "Bytes" ->
            IF ctype \in CharTypes THEN JString(Utf8Lossy(value.bytes))
            ELSE IF ctype \in BlobTypes
                 THEN IF binary
                      THEN JArray([i \in 1..Len(value.bytes) |->
                                      JNumber("PosInt", value.bytes[i])])
                      ELSE JString(Utf8Lossy(value.bytes))
            ELSE JNull
      [] value.tag = "Float" -> NumberFromF64(value.finite, value.halves)
      [] value.tag = "Int" -> NumberFromI64(value.int)
      [] value.tag = "UInt" -> JNumber("PosInt", value.uint)
      [] value.tag = "Date" -> JString(FormatDate(value))
      [] OTHER -> JNull

\* --------------------------------- a parameter bound, stored and read back
\* The values json_to_mysql is tried on: the payload values, and the
\* one-element sequence of every byte value.
ParamValues ==
    JsonValues \cup {JArray(<<JNumber("PosInt", b)>>) : b \in 0..(U8Range - 1)}

DecodeInit ==
    /\ SharedInit
    /\ fn = "none"
    /\ arg \in ParamValues
    /\ ret = <<>>

DecodeParam ==
    /\ fn = "none"
    /\ fn' = "json_to_mysql"
    /\ ret' = JsonToMysql(arg)
    /\ UNCHANGED arg
    /\ UNCHANGED shared

\* The bytes bound are stored in a large-object column (BLOB: binary flag,
\* TEXT: none), come back in a row as they were stored, and the cell is
\* converted.
ReadBack(ctype, binary) ==
    /\ fn = "json_to_mysql"
    /\ ret.tag = "Bytes"
    /\ fn' = "read_back"
    /\ ret' = [param |-> ret, ctype |-> ctype, binary |-> binary,
               cell |-> EncodeCell(ret, ctype, binary)]
    /\ UNCHANGED arg
    /\ UNCHANGED shared

DecodeNext ==
    \/ DecodeParam
    \/ \E ctype \in BlobTypes, binary \in BOOLEAN : ReadBack(ctype, binary)

DecodeSpec == DecodeInit /\ [][DecodeNext]_vars

\* ------------------------------------- do_query, statement by statement
\* One call of do_query through sql_query_blocking (or the closure of
\* sql_query_async). arg is what the call meets: a slot with a pool or not,
\* a get_conn and an exec_iter that succeed or not, and the rows of the
\* result set, each read well (TRUE) or with an error (FALSE). ret is the
\* state of the call: the read guard p alive, the connection conn checked
\* out, the rows consumed, result_json built, and the text returned.
QueryRuns ==
    [slot : BOOLEAN, get_conn : BOOLEAN, exec_iter : BOOLEAN,
     rows : UNION {[1..n -> BOOLEAN] : n \in 0..MaxRows}]

RunState(guard, inhand, consumed, built, text) ==
    [guard |-> guard, conn |-> inhand, consumed |-> consumed, built |-> built,
     text |-> text]

RunInit ==
    /\ SharedInit
    /\ fn = "none"
    /\ arg \in QueryRuns
    /\ ret = RunState(FALSE, FALSE, 0, FALSE, "none")

\* let p = POOL.read()?; match &*p { Some(s) => s, None => return Ok(offline) }
RunRead ==
    /\ fn = "none"
    /\ IF arg.slot
       THEN fn' = "read" /\ ret' = [ret EXCEPT !.guard = TRUE]
       ELSE fn' = "return" /\ ret' = [ret EXCEPT !.text = "offline"]
    /\ UNCHANGED arg
    /\ UNCHANGED shared

\* pool.get_conn()? and the end of the block: p is dropped, conn lives on;
\* on an Err, `?` leaves do_query.
RunGetConn ==
    /\ fn = "read"
    /\ IF arg.get_conn
       THEN fn' = "get_conn" /\ ret' = [ret EXCEPT !.guard = FALSE, !.conn = TRUE]
       ELSE fn' = "failed" /\ ret' = [ret EXCEPT !.guard = FALSE]
    /\ UNCHANGED arg
    /\ UNCHANGED shared

\* conn.exec_iter(query, params_from_json(params))?: on an Err, `?` leaves
\* do_query and conn is dropped on the way out.
RunExecIter ==
    /\ fn = "get_conn"
    /\ IF arg.exec_iter
       THEN fn' = "exec_iter" /\ ret' = ret
       ELSE fn' = "failed" /\ ret' = [ret EXCEPT !.conn = FALSE]
    /\ UNCHANGED arg
    /\ UNCHANGED shared

\* One turn of `for row in query_result`: let row = row?; the cells; rows.push.
RunRow ==
    /\ fn \in {"exec_iter", "row"}
    /\ ret.consumed < Len(arg.rows)
    /\ IF arg.rows[ret.consumed + 1]
       THEN fn' = "row" /\ ret' = [ret EXCEPT !.consumed = @ + 1]
       ELSE fn' = "failed" /\ ret' = [ret EXCEPT !.conn = FALSE]
    /\ UNCHANGED arg
    /\ UNCHANGED shared

\* Faulty variant: the result is made into text inside the block, before
\* drop(conn): json!{..}.to_string().
RunJson_ToString ==
    /\ fn \in {"exec_iter", "row"}
    /\ ret.consumed = Len(arg.rows)
    /\ fn' = "json"
    /\ ret' = [ret EXCEPT !.built = TRUE, !.text = "ok"]
    /\ UNCHANGED arg
    /\ UNCHANGED shared

\* The loop is over; json!{{"status": "ok", "affected": .., "rows": rows}}
RunJson ==
    /\ fn \in {"exec_iter", "row"}
    /\ ret.consumed = Len(arg.rows)
    /\ fn' = "json"
    /\ ret' = [ret EXCEPT !.built = TRUE]
    /\ UNCHANGED arg
    /\ UNCHANGED shared

\* std::mem::drop(conn)
RunDrop ==
    /\ fn = "json"
    /\ fn' = "drop"
    /\ ret' = [ret EXCEPT !.conn = FALSE]
    /\ UNCHANGED arg
    /\ UNCHANGED shared

\* Ok(result_json.to_string())
RunToString ==
    /\ fn = "drop"
    /\ fn' = "return"
    /\ ret' = [ret EXCEPT !.text = "ok"]
    /\ UNCHANGED arg
    /\ UNCHANGED shared

\* Err(e) => err_to_json(e), in sql_query_blocking or the job's closure
RunErrToJson ==
    /\ fn = "failed"
    /\ fn' = "return"
    /\ ret' = [ret EXCEPT !.text = "err"]
    /\ UNCHANGED arg
    /\ UNCHANGED shared

RunNext ==
    \/ RunRead
    \/ RunGetConn
    \/ RunExecIter
    \/ RunRow
    \/ RunJson
    \/ RunDrop
    \/ RunToString
    \/ RunErrToJson

RunSpec == RunInit /\ [][RunNext]_vars

\* ------------------------------------------------ the cells of a result set
\* Byte strings of up to MaxLen bytes: a NUL, a letter, the two bytes of a
\* two-byte character, a byte that occurs in no UTF-8 text.
CellBytes == {0, 97, 195, 169, 255}
ByteCells == UNION {{MBytes(b) : b \in [1..n -> CellBytes]} : n \in 0..MaxLen}
\* Dates as the server sends them, the zero date and years of fewer than four
\* digits among them.
DateCells ==
    {MDate(y, mo, d, h, mi, s, us) :
        y \in {0, 7, 999, 1000, 2024, 9999}, mo \in {0, 1, 12}, d \in {0, 9, 31},
        h \in {0, 23}, mi \in {0, 59}, s \in {0, 59}, us \in {0, 999999}}
DateTypes == {"MYSQL_TYPE_TIMESTAMP", "MYSQL_TYPE_DATE", "MYSQL_TYPE_DATETIME"}
OtherCells ==
    {MNull, MTime, MInt(-1), MInt(0), MInt(5), MUInt(0), MUInt(7),
     MFloat(TRUE, 3), MFloat(FALSE, 0)}

Cells ==
    [value : ByteCells \cup OtherCells, ctype : ColumnTypes, binary : BOOLEAN]
        \cup [value : DateCells, ctype : DateTypes, binary : BOOLEAN]

EncodeInit ==
    /\ SharedInit
    /\ fn = "none"
    /\ arg \in Cells
    /\ ret = <<>>

EncodeOneCell ==
    /\ fn = "none"
    /\ fn' = "encode_cell"
    /\ ret' = EncodeCell(arg.value, arg.ctype, arg.binary)
    /\ UNCHANGED arg
    /\ UNCHANGED shared

EncodeNext == EncodeOneCell

EncodeSpec == EncodeInit /\ [][EncodeNext]_vars

\* ================================================================ claims
\* The result a do_query run by thread t ended with.
QueryResultOf(t) == IF t \in Jobs THEN res[t] ELSE out.st
\* Thread t takes the step that reads the slot under its read guard.
ReadsSlot(t) == pc[t] = "rlock" /\ pc'[t] # "rlock"
\* Caller c takes the step in which its disconnect / connect / status call
\* gets the lock and returns.
DisconnectReturns(c) == pc[c] = "d_wlock" /\ pc'[c] = "idle"
ConnectReturns(c) == pc[c] = "c_wlock" /\ pc'[c] = "idle"
StatusReturns(c) == pc[c] = "s_rlock" /\ pc'[c] = "idle"

\* C1: a do_query (blocking or in a job) that reads an empty slot returns
\* offline, never err, and checks out no connection.
C1_OfflineWhenEmpty ==
    [][\A t \in Threads :
          (ReadsSlot(t) /\ slot = NoPool) =>
              /\ QueryResultOf(t)' = "offline"
              /\ pc'[t] \in {"idle", "done"}
              /\ conn' = conn]_vars

C1_Witness ==
    /\ slot = NoPool
    /\ lastSlotOp = "disconnect"
    /\ out = Result("query", 0, "offline")

\* C2: the step in which disconnect holds the write lock leaves the slot
\* empty and returns success exactly when the slot held a pool, offline
\* exactly when it was empty.
C2_DisconnectEmpties ==
    [][\A c \in Callers :
          DisconnectReturns(c) =>
              /\ slot' = NoPool
              /\ out' = Result("disconnect", 0,
                               IF slot # NoPool THEN "success" ELSE "offline")]_vars

C2_Witness ==
    /\ slot = NoPool
    /\ out = Result("disconnect", 0, "success")

\* C3: the slot holds a pool exactly when the last operation that wrote it
\* was a successful connect, that pool is the one that connect built, only
\* connect and disconnect change the slot, and is_connected answers online
\* exactly in that case.
C3_SlotFollowsLastConnect ==
    /\ [](slot # NoPool <=> lastSlotOp = "connect")
    /\ [][/\ \A c \in Callers :
                ConnectReturns(c) =>
                    slot' = pend[c] /\ out' = Result("connect", 0, "ok")
          /\ \A c \in Callers :
                StatusReturns(c) =>
                    out' = Result("status", 0,
                                  IF lastSlotOp = "connect" THEN "online"
                                  ELSE "offline")
          /\ slot' # slot =>
                \E c \in Callers : ConnectReturns(c) \/ DisconnectReturns(c)]_vars

C3_Witness ==
    /\ poolsBuilt = 2
    /\ slot = 2
    /\ out = Result("status", 0, "online")

\* C4 (as stated): a job that was running when a disconnect was issued ends
\* with ok or err.
C4_Original ==
    \A j \in Jobs :
        (pc[j] = "done" /\ discAt[j] # "none") => res[j] \in {"ok", "err"}

\* C4 (amended): a job that was running when a disconnect was issued does
\* end with a result of its own: ok or err if it had taken its read lock on
\* the connected slot by then, ok, err or offline if it had not read the slot
\* yet.
C4_Amended ==
    /\ \A j \in Jobs : (discAt[j] # "none") ~> (pc[j] = "done")
    /\ [](\A j \in Jobs :
             (pc[j] = "done" /\ discAt[j] = "held") => res[j] \in {"ok", "err"})
    /\ [](\A j \in Jobs :
             (pc[j] = "done" /\ discAt[j] = "rlock") =>
                 res[j] \in {"ok", "err", "offline"})

C4_Witness ==
    /\ slot = NoPool
    /\ lastSlotOp = "disconnect"
    /\ \E j \in Jobs : pc[j] = "done" /\ discAt[j] = "held" /\ res[j] = "ok"

\* C5: every started job ends, it has a result exactly when it has ended,
\* and the result it stored is never changed afterwards.
C5_AllJobsComplete ==
    /\ \A j \in Jobs : (pc[j] # "unborn") ~> (pc[j] = "done")
    /\ [](\A j \in Jobs :
             IF pc[j] = "done" THEN res[j] \in {"ok", "err", "offline"}
             ELSE res[j] = "none")
    /\ [][\A j \in Jobs :
             pc[j] = "done" => (pc'[j] = "done" /\ res'[j] = res[j])]_vars

C5_Witness ==
    /\ started = MaxJobs
    /\ slot # NoPool
    /\ poolMax[slot] = 1
    /\ \A j \in Jobs : pc[j] = "done" /\ res[j] = "ok"

\* C6: a poll of a started job returns still-running until the job is done
\* and its stored result from then on; a stored result never changes.
C6_CheckIdempotent ==
    [][/\ \A id \in Jobs :
             (calls' = calls + 1 /\ out'.op = "check" /\ out'.id = id
                  /\ id <= started) =>
                 out'.st = (IF pc[id] = "done" THEN res[id] ELSE "still-running")
       /\ \A j \in Jobs :
             pc[j] = "done" => (pc'[j] = "done" /\ res'[j] = res[j])]_vars

C6_Witness ==
    \E j \in Jobs : pc[j] = "done" /\ out = Result("check", j, res[j])

\* A read lock asked for now is not granted before some running query ends:
\* a writer waits (and the platform lets it go first), the writer waits for
\* the read guards, and their holders wait inside get_conn for a connection
\* of the exhausted pool.
ReadWaitsForQuery ==
    /\ ~CanRead
    /\ ~CanWrite
    /\ ~PoolHasRoom(slot)

\* C7: in no reachable state does a status call have to wait for a query.
C7_StatusNeverWaitsForQuery == ~ReadWaitsForQuery

\* C8: while the slot is empty no thread checks out a connection and every
\* read of the slot returns offline; a disconnect leaves every checked-out
\* connection with its thread, and a thread that runs its query ends with
\* ok or err.
C8_DisconnectOnlyStopsCheckouts ==
    [][/\ slot = NoPool =>
             \A t \in Threads :
                 /\ conn'[t] # NoPool => conn'[t] = conn[t]
                 /\ ReadsSlot(t) => QueryResultOf(t)' = "offline"
       /\ \A c \in Callers :
             DisconnectReturns(c) =>
                 \A t \in Threads :
                     pc[t] = "exec" => (pc'[t] = "exec" /\ conn'[t] = conn[t])
       /\ \A t \in Threads :
             (pc[t] = "exec" /\ pc'[t] # "exec") =>
                 (conn[t] # NoPool /\ QueryResultOf(t)' \in {"ok", "err"})]_vars

C8_Witness ==
    /\ slot = NoPool
    /\ lastSlotOp = "disconnect"
    /\ \E j \in Jobs : pc[j] = "exec" /\ conn[j] # NoPool

\* C9: every disconnect that waits for the write lock gets it and returns.
C9_DisconnectReturns ==
    \A c \in Callers : (pc[c] = "d_wlock") ~> (pc[c] = "idle")

C9_Witness ==
    /\ \E c \in Callers : pc[c] = "d_wlock"
    /\ \E j \in Jobs : pc[j] = "getconn"
    /\ ~PoolHasRoom(slot)

\* The statuses each operation may return.
StatusesOf(op) ==
    CASE op = "none" -> {"none"}
      [] op = "query" -> {"ok", "err", "offline"}
      [] op = "async" -> {"started"}
      [] op = "check" -> {"no-such-job", "still-running", "ok", "err", "offline"}
      [] op = "connect" -> {"ok", "err"}
      [] op = "disconnect" -> {"success", "offline", "err"}
      [] op = "status" -> {"online", "offline", "err"}

\* C10: every result is a well-formed status of its operation; a connect
\* whose pool cannot be built and a checkout that fails return err; a
\* poisoned lock makes connect, disconnect, is_connected and do_query return
\* err and leave the slot alone; an empty slot behind a sound lock is offline.
C10_WellFormedResults ==
    [][/\ out'.st \in StatusesOf(out'.op)
       /\ \A j \in Jobs : res'[j] \in {"none", "ok", "err", "offline"}
       /\ (calls' = calls + 1 /\ out'.op = "connect") => out'.st = "err"
       /\ \A t \in Threads :
             (pc[t] = "getconn" /\ pc'[t] \notin {"getconn", "exec"}) =>
                 QueryResultOf(t)' = "err"
       /\ \A t \in Threads :
             ReadsSlot(t) =>
                 /\ poisoned => QueryResultOf(t)' = "err"
                 /\ (~poisoned /\ slot = NoPool) => QueryResultOf(t)' = "offline"
       /\ \A c \in Callers :
             (poisoned /\ (ConnectReturns(c) \/ DisconnectReturns(c)
                               \/ StatusReturns(c))) =>
                 (out'.st = "err" /\ slot' = slot)]_vars

C10_Witness ==
    /\ poisoned
    /\ out = Result("disconnect", 0, "err")

\* A text that writes a number: an optional +, then decimal digits only.
NumberDigits(t) == IF t # <<>> /\ Head(t) = "+" THEN Tail(t) ELSE t
WritesNumber(t) ==
    /\ NumberDigits(t) # <<>>
    /\ \A i \in DOMAIN NumberDigits(t) :
          NumberDigits(t)[i] \in {"0", "1", "2", "3", "4", "5", "6", "7", "8", "9"}
\* Its digits without the leading zeros.
Significant(d) ==
    LET k == CHOOSE n \in 0..Len(d) :
                 /\ \A i \in 1..n : d[i] = "0"
                 /\ n = Len(d) \/ d[n + 1] # "0"
    IN  SubSeq(d, k + 1, Len(d))
\* A number of at most 16 bits: below 65536, compared digit by digit.
WithinPortRange(d) ==
    LET top == <<"6", "5", "5", "3", "5">>
    IN  \/ Len(d) < Len(top)
        \/ /\ Len(d) = Len(top)
           /\ \/ d = top
              \/ \E i \in 1..Len(top) :
                    /\ \A j \in 1..(i - 1) : d[j] = top[j]
                    /\ Digit(d[i]) < Digit(top[i])
ValidPortText(t) == WritesNumber(t) /\ WithinPortRange(Significant(NumberDigits(t)))

\* C11: a port text that writes no 16-bit number gives port 3306, a timeout
\* text that writes no number 10 seconds, a min_threads text 1, a max_threads
\* text 50; the call then does exactly what it does on the texts 3306, 10, 1
\* and 50, so that a bad text is never by itself the cause of an err.
C11_NumericFallbacks ==
    fn = "sql_connect_pool" =>
        LET mended ==
                [port |-> IF ValidPortText(arg.port) THEN arg.port
                          ELSE <<"3", "3", "0", "6">>,
                 timeout |-> IF WritesNumber(arg.timeout) THEN arg.timeout
                             ELSE <<"1", "0">>,
                 min_threads |-> IF WritesNumber(arg.min_threads) THEN arg.min_threads
                                 ELSE <<"1">>,
                 max_threads |-> IF WritesNumber(arg.max_threads) THEN arg.max_threads
                                 ELSE <<"5", "0">>,
                 reach |-> arg.reach]
        IN  /\ ~ValidPortText(arg.port) => ret.port = 3306
            /\ ~WritesNumber(arg.timeout) => ret.timeout = 10
            /\ ~WritesNumber(arg.min_threads) => ret.min_threads = 1
            /\ ~WritesNumber(arg.max_threads) => ret.max_threads = 50
            /\ ret = SqlConnectPool(mended)
            /\ ret.port \in 0..65535

C11_Witness ==
    /\ fn = "sql_connect_pool"
    /\ arg.port = <<"6", "5", "5", "3", "6">>
    /\ ret.port = 3306
    /\ ret.pool

\* C12: a payload that parses as a non-empty mapping binds each of its
\* entries by name, one that parses as a non-empty sequence binds each of its
\* elements at its own position; an empty mapping, an empty sequence, any
\* other value and a text that does not parse bind nothing. There is no error
\* outcome.
C12_OneShape ==
    fn = "params_from_json" =>
        LET val == arg.value
            mapping == arg.ok /\ val.tag = "Object"
            sequence == arg.ok /\ val.tag = "Array"
        IN  /\ ret.kind \in {"Empty", "Positional", "Named"}
            /\ (mapping /\ DOMAIN val.o # {}) =>
                  /\ ret.kind = "Named"
                  /\ DOMAIN ret.named = DOMAIN val.o
                  /\ \A key \in DOMAIN val.o : ret.named[key] = JsonToMysql(val.o[key])
            /\ (sequence /\ val.a # <<>>) =>
                  /\ ret.kind = "Positional"
                  /\ Len(ret.pos) = Len(val.a)
                  /\ \A i \in 1..Len(val.a) : ret.pos[i] = JsonToMysql(val.a[i])
            /\ (sequence /\ val.a = <<>>) => ret = ParamsEmpty
            /\ (mapping /\ DOMAIN val.o = {}) => ret = ParamsEmpty
            /\ (~mapping /\ ~sequence) => ret = ParamsEmpty

C12_Witness ==
    /\ fn = "params_from_json"
    /\ arg = FromStrOk(JArray(<<JNumber("PosInt", 255), JNull, JString(<<97>>)>>))
    /\ ret = ParamsPositional(<<MUInt(255), MNull, MBytes(<<97>>)>>)

\* A sequence of byte values: every element an integer in 0..255.
IsByteSequence(val) ==
    /\ val.tag = "Array"
    /\ \A i \in 1..Len(val.a) :
          /\ val.a[i].tag = "Number"
          /\ val.a[i].n = "PosInt"
          /\ val.a[i].i \in 0..255

\* C13: a sequence of byte values bound as a parameter and read back from a
\* large-object column with the binary flag is the same sequence: same
\* length, same elements in the same order.
C13_BinaryRoundTrip ==
    (fn = "read_back" /\ IsByteSequence(arg) /\ ret.binary) =>
        /\ ret.cell.tag = "Array"
        /\ Len(ret.cell.a) = Len(arg.a)
        /\ \A i \in 1..Len(arg.a) : ret.cell.a[i] = arg.a[i]
        /\ ret.cell = arg

C13_Witness ==
    /\ fn = "read_back"
    /\ arg = JArray(<<JNumber("PosInt", 255), JNumber("PosInt", 0), JNumber("PosInt", 255)>>)
    /\ ret.ctype = "MYSQL_TYPE_BLOB"
    /\ ret.binary
    /\ ret.cell = arg

\* C15: a boolean becomes the unsigned integer 0 or 1, an integer from 0 on
\* an unsigned integer and an integer below 0 a signed integer, each of the
\* same value; an integer never becomes a float or NULL.
C15_IntegersKeepSign ==
    fn = "json_to_mysql" =>
        /\ arg.tag = "Bool" => ret = MUInt(IF arg.b THEN 1 ELSE 0)
        /\ (arg.tag = "Number" /\ arg.n # "Float") =>
              /\ ret.tag \notin {"Float", "NULL"}
              /\ arg.i >= 0 => (ret.tag = "UInt" /\ ret.uint = arg.i)
              /\ arg.i < 0 => (ret.tag = "Int" /\ ret.int = arg.i)

C15_Witness ==
    /\ fn = "json_to_mysql"
    /\ arg = JNumber("NegInt", -257)
    /\ ret = MInt(-257)

\* C16 (as stated): a sequence becomes a byte sequence of the same length,
\* element n becoming n mod 256 for every number n, also above 255 and below
\* 0, and an element that is no number becoming 0.
C16_Original ==
    (fn = "json_to_mysql" /\ arg.tag = "Array") =>
        /\ ret.tag = "Bytes"
        /\ Len(ret.bytes) = Len(arg.a)
        /\ \A i \in 1..Len(arg.a) :
              ret.bytes[i] =
                  (IF arg.a[i].tag # "Number" THEN 0
                   ELSE IF arg.a[i].n = "Float" THEN (arg.a[i].i \div 2) % 256
                   ELSE arg.a[i].i % 256)

\* C16 (amended): a sequence becomes a byte sequence of the same length; an
\* element that is an integer n from 0 on becomes n mod 256, every other
\* element (an integer below 0, a float, anything that is no number) becomes 0.
C16_Amended ==
    (fn = "json_to_mysql" /\ arg.tag = "Array") =>
        /\ ret.tag = "Bytes"
        /\ Len(ret.bytes) = Len(arg.a)
        /\ \A i \in 1..Len(arg.a) :
              /\ ret.bytes[i] \in 0..255
              /\ ret.bytes[i] =
                    (IF arg.a[i].tag = "Number" /\ arg.a[i].n = "PosInt"
                     THEN arg.a[i].i % 256
                     ELSE 0)

C16_Witness ==
    /\ fn = "json_to_mysql"
    /\ arg = JArray(<<JNumber("PosInt", 257), JNumber("NegInt", -1), JString(<<97>>)>>)
    /\ ret = MBytes(<<1, 0, 0>>)

\* C17 (as stated): null, a mapping and a sequence with an element that is
\* no number become NULL.
C17_Original ==
    (/\ fn = "json_to_mysql"
     /\ \/ arg.tag \in {"Null", "Object"}
        \/ /\ arg.tag = "Array"
           /\ \E i \in 1..Len(arg.a) : arg.a[i].tag # "Number")
        => ret = MNull

\* C17 (amended): null and a mapping become NULL; every sequence, also one
\* with elements that are no numbers or are sequences themselves, becomes a
\* byte sequence of its length; every value has a result, there is no error.
C17_Amended ==
    fn = "json_to_mysql" =>
        /\ arg.tag \in {"Null", "Object"} => ret = MNull
        /\ arg.tag = "Array" => (ret.tag = "Bytes" /\ Len(ret.bytes) = Len(arg.a))
        /\ ret.tag \in {"NULL", "Bytes", "Int", "UInt", "Float"}
        /\ ret = MNull => arg.tag \in {"Null", "Object"}

C17_Witness ==
    /\ fn = "json_to_mysql"
    /\ arg = JArray(<<JArray(<<JNumber("PosInt", 1)>>), JString(<<97>>)>>)
    /\ ret = MBytes(<<0, 0>>)

\* C14: a do_query that checked out a connection has given it back when its
\* result text is made, whether the query ran well or exec_iter or a row
\* failed; when the query ran well the connection goes back after the last
\* row is consumed and before the result is made into text; no connection is
\* out before the call or after its return; and the read guard is gone while
\* the connection is in hand.
C14_ReleasedBeforeResult ==
    /\ [](ret.text # "none" => (~ret.conn /\ ~ret.guard))
    /\ [](fn \in {"none", "return"} => (~ret.conn /\ ~ret.guard))
    /\ [](ret.conn => ~ret.guard)
    /\ [](ret.text = "ok" => (ret.consumed = Len(arg.rows) /\ ret.built))
    /\ [][(ret.conn /\ ~ret'.conn /\ fn' = "drop") =>
             (ret.consumed = Len(arg.rows) /\ ret.built /\ ret'.text = "none")]_vars
    /\ [][fn' = "return" => ~ret.conn]_vars

C14_Witness ==
    /\ fn = "drop"
    /\ Len(arg.rows) = MaxRows
    /\ ret = RunState(FALSE, FALSE, MaxRows, TRUE, "none")

\* The sequence of numbers of a byte string: one per byte, in order.
NumbersOf(b) == JArray([i \in 1..Len(b) |-> JNumber("PosInt", b[i])])

\* C18 (as stated): a byte-string cell is text in a column of a character
\* type, text in a large-object column without the binary flag, and in every
\* other case the sequence of its bytes as numbers.
C18_Original ==
    (fn = "encode_cell" /\ arg.value.tag = "Bytes") =>
        IF arg.ctype \in CharTypes THEN ret.tag = "String"
        ELSE IF arg.ctype \in BlobTypes /\ ~arg.binary THEN ret.tag = "String"
        ELSE ret = NumbersOf(arg.value.bytes)

\* C18 (amended): a byte-string cell is text in a column of a character
\* type, whatever the flag; in a large-object column it is text without the
\* binary flag and the sequence of its bytes as numbers with it; in a column
\* of any other type it is null.
C18_Amended ==
    (fn = "encode_cell" /\ arg.value.tag = "Bytes") =>
        IF arg.ctype \in CharTypes THEN ret.tag = "String"
        ELSE IF arg.ctype \in BlobTypes /\ ~arg.binary THEN ret.tag = "String"
        ELSE IF arg.ctype \in BlobTypes /\ arg.binary
             THEN ret = NumbersOf(arg.value.bytes)
        ELSE ret = JNull

C18_Witness ==
    /\ fn = "encode_cell"
    /\ arg.value = MBytes(<<255, 0, 97>>)
    /\ arg.ctype = "MYSQL_TYPE_TINY_BLOB"
    /\ arg.binary
    /\ ret = NumbersOf(<<255, 0, 97>>)

\* The code points of the digits.
IsDigitPoint(c) == c \in 48..57

\* C19: a date cell is the text YYYY-MM-DD HH:MM:SS: 19 characters, digits
\* but for the separators at their fixed places, the same for any
\* microseconds.
C19_FixedWidthDate ==
    (fn = "encode_cell" /\ arg.value.tag = "Date") =>
        /\ ret.tag = "String"
        /\ Len(ret.s) = 19
        /\ \A i \in 1..Len(ret.s) :
              CASE i \in {5, 8} -> ret.s[i] = 45
                [] i = 11 -> ret.s[i] = 32
                [] i \in {14, 17} -> ret.s[i] = 58
                [] OTHER -> IsDigitPoint(ret.s[i])
        /\ ret = EncodeCell([arg.value EXCEPT !.micros = 0], arg.ctype, arg.binary)

\* The step in which a call of connect returns err.
ConnectFails == calls' = calls + 1 /\ out' = Result("connect", 0, "err")

\* C20: a connect whose pool cannot be built returns in the step it is
\* called, without waiting for or taking the write lock, and leaves the slot,
\* the pool in it, its size and the connections checked out from it as they
\* were; no connect that got the write lock returns err.
C20_FailedConnectFrame ==
    [][/\ ConnectFails =>
             /\ slot' = slot
             /\ lastSlotOp' = lastSlotOp
             /\ poolsBuilt' = poolsBuilt
             /\ poolMax' = poolMax
             /\ conn' = conn
             /\ pend' = pend
             /\ pc' = pc
       /\ \A c \in Callers : ConnectReturns(c) => out' = Result("connect", 0, "ok")]_vars

C20_Witness ==
    /\ out = Result("connect", 0, "err")
    /\ slot # NoPool
    /\ lastSlotOp = "connect"
    /\ \E t \in Threads : pc[t] = "getconn"

====
